---- MODULE Spec2Model ----
(***************************************************************************)
(* A model of the anahit news backend: the configuration and article       *)
(* tables (news_config/models.py), the ingestion task and its retry policy *)
(* (news_config/tasks.py) and the management API (news_config/api.py).     *)
(***************************************************************************)
EXTENDS Integers, Sequences, FiniteSets, TLC

VARIABLES
    users,          \* auth.User table: id -> username
    configs,        \* NewsSearchConfig table: id -> row
    articles,       \* NewsArticle table: id -> row
    lastUserId,     \* autoincrement counter of the auth.User table
    lastConfigId,   \* autoincrement counter of the NewsSearchConfig table
    lastArticleId,  \* autoincrement counter of the NewsArticle table
    now,            \* the wall clock (timezone.now())
    NEWS_API_KEY,   \* settings.NEWS_API_KEY, the process-wide default key
    ws,             \* one record per celery worker slot running fetch_news_for_config
    api,            \* the management API request in flight, if any
    self,           \* a NewsSearchConfig instance get_newsapi_params is called on
    ret,            \* what get_newsapi_params returned for it
    queue,          \* fetch_news_for_config messages submitted with .delay, oldest first
    periodic,       \* the periodic task in flight or finished, if any
    snapshot        \* the article table as a test database starts with, and as a
                    \* finished run left it before the database was rolled back

vars == <<users, configs, articles, lastUserId, lastConfigId, lastArticleId, now,
          NEWS_API_KEY, ws, api, self, ret, queue, periodic, snapshot>>

-----------------------------------------------------------------------------
(* Bounds of the model. *)

MaxConfigs == 2     \* configuration rows ever created
MaxArticles == 2    \* records in one provider response
MaxBatch == 1       \* records in one response or bulk request when requests race
MaxTime == 2        \* clock ticks
MaxLen == 2         \* characters in a keywords / sources text
MaxDays == 1        \* days_to_keep of a retention sweep

-----------------------------------------------------------------------------
(* Values. *)

\* a NULL column / Python None: for atoms, for texts and for timestamps
None == "None"
NoneText == <<"None">>
NullTime == 0

Workers == {"w1", "w2"}

\* the characters texts are made of: a letter, the separator, whitespace
Chars == {"a", ",", " "}

RECURSIVE Texts(_)
Texts(n) ==
    IF n = 0 THEN {<<>>}
    ELSE Texts(n - 1) \cup {Append(t, c) : t \in {s \in Texts(n - 1) : Len(s) = n - 1}, c \in Chars}

COUNTRY_CHOICES == {"us", "uk", "ca"}
CATEGORY_CHOICES == {"general", "business", "technology"}
SORT_BY_CHOICES == {"publishedAt", "relevancy", "popularity"}
FREQUENCY_CHOICES == {"hourly", "daily", "weekly"}

-----------------------------------------------------------------------------
(* Python dict and str helpers. *)

Has(d, k) == k \in DOMAIN d
Put(d, k, v) == [x \in DOMAIN d \cup {k} |-> IF x = k THEN v ELSE d[x]]
Pop(d, k) == [x \in DOMAIN d \ {k} |-> d[x]]

\* str.split(","): "" gives [""], "a,b" gives ["a", "b"]
RECURSIVE split(_)
split(s) ==
    IF s = <<>> THEN << <<>> >>
    ELSE LET rest == split(Tail(s)) IN
         IF Head(s) = "," THEN << <<>> >> \o rest
         ELSE << <<Head(s)>> \o Head(rest) >> \o Tail(rest)

\* str.strip(): leading and trailing whitespace removed
RECURSIVE lstrip(_)
lstrip(s) == IF s # <<>> /\ Head(s) = " " THEN lstrip(Tail(s)) ELSE s

RECURSIVE rstrip(_)
rstrip(s) ==
    IF s # <<>> /\ s[Len(s)] = " " THEN rstrip(SubSeq(s, 1, Len(s) - 1)) ELSE s

strip(s) == rstrip(lstrip(s))

\* ",".join(list)
RECURSIVE join(_)
join(l) ==
    IF l = <<>> THEN <<>>
    ELSE IF Len(l) = 1 THEN l[1]
    ELSE l[1] \o <<",">> \o join(Tail(l))

-----------------------------------------------------------------------------
(* NewsSearchConfig methods. *)

\* [s.strip() for s in self.sources.split(",") if s.strip()] if self.sources else []
RECURSIVE StripNonEmpty(_)
StripNonEmpty(l) ==
    IF l = <<>> THEN <<>>
    ELSE IF strip(Head(l)) # <<>> THEN <<strip(Head(l))>> \o StripNonEmpty(Tail(l))
    ELSE StripNonEmpty(Tail(l))

get_sources_list(c) ==
    IF c.sources # <<>> THEN StripNonEmpty(split(c.sources)) ELSE <<>>

ParamsBase(c) ==
    [k \in {"country", "category", "sortBy"} |->
        IF k = "country" THEN c.country
        ELSE IF k = "category" THEN c.category
        ELSE c.sort_by]

WithKeywords(c, params) ==
    IF c.keywords # <<>> THEN Put(params, "q", c.keywords) ELSE params

WithSourcesKeepingCountry(c, params) ==
    IF c.sources # <<>> THEN Put(params, "sources", join(get_sources_list(c))) ELSE params

WithSources(c, params) ==
    IF c.sources # <<>>
    THEN Pop(Pop(Put(params, "sources", join(get_sources_list(c))), "country"), "category")
    ELSE params

get_newsapi_params_AlwaysQ(c) ==
    WithSources(c, Put(ParamsBase(c), "q", c.keywords))

get_newsapi_params(c) == WithSources(c, WithKeywords(c, ParamsBase(c)))

-----------------------------------------------------------------------------
(* Tables. *)

NoSnapshot ==
    [taken |-> FALSE, articles |-> <<>>, configs |-> <<>>, rows |-> {}, run |-> <<>>]

\* the rows of a table, without their ids
Rows(table) == {table[id] : id \in DOMAIN table}

Insert(table, id, row) == [i \in DOMAIN table \cup {id} |-> IF i = id THEN row ELSE table[i]]
Delete(table, ids) == [i \in DOMAIN table \ ids |-> table[i]]

\* NewsArticle.objects.filter(url=u)
ByUrl(u) == {id \in DOMAIN articles : articles[id].url = u}

ArticlesOfNothing(cid) == {}

\* config.articles: the rows whose foreign key is cid
ArticlesOf(cid) == {id \in DOMAIN articles : articles[id].search_config_id = cid}

\* user.news_configs: the rows whose foreign key is uid
ConfigsOf(uid) == {cid \in DOMAIN configs : configs[cid].user_id = uid}

\* the NewsSearchConfig row a create or a full save writes, from a payload's fields
ConfigRow(uid, p, created, updated, executed) ==
    [user_id |-> uid, name |-> p.name, keywords |-> p.keywords, country |-> p.country,
     category |-> p.category, sources |-> p.sources, sort_by |-> p.sort_by,
     frequency |-> p.frequency, is_active |-> p.is_active,
     created_at |-> created, updated_at |-> updated, last_executed |-> executed]

\* NOT NULL columns of NewsSearchConfig a payload can leave None
ConfigIntegrityError(p) == p.keywords = NoneText \/ p.sources = NoneText

\* the constraints an INSERT into NewsArticle can violate, without the unique index
ArticleIntegrityErrorNoUnique(row) ==
    \/ row.title = None
    \/ row.source_name = None
    \/ row.published_at = None
    \/ row.search_config_id \notin DOMAIN configs

\* the constraints an INSERT into NewsArticle can violate: NOT NULL columns,
\* url unique=True, the foreign key to NewsSearchConfig
ArticleIntegrityError(row) ==
    \/ row.title = None
    \/ row.source_name = None
    \/ row.published_at = None
    \/ ByUrl(row.url) # {}
    \/ row.search_config_id \notin DOMAIN configs

\* DateTimeField.to_python rejects a text that is no ISO datetime
ValidationError(row) == row.published_at = "invalid"

-----------------------------------------------------------------------------
(* NewsArticle.create_from_newsapi: the arguments it builds for get_or_create. *)

\* article_data.get(k)
DictGet(d, k) == IF Has(d, k) THEN d[k] ELSE None

\* article_data.get("source") is truthy: the key is there and the object is not empty
HasSource(d) == Has(d, "source") /\ DOMAIN d["source"] # {}

\* a KeyError while the arguments are evaluated
KeyError(d) ==
    \/ ~Has(d, "url")
    \/ ~Has(d, "title")
    \/ ~Has(d, "publishedAt")
    \/ (HasSource(d) /\ ~Has(d["source"], "name"))

SourceNameAlwaysUnknown(d) == "Unknown"

SourceName(d) == IF HasSource(d) THEN d["source"]["name"] ELSE "Unknown"

SourceId(d) == IF HasSource(d) THEN DictGet(d["source"], "id") ELSE None

\* defaults, with the url and the columns the model fills in (created_at, is_read)
ArticleRow(d, cid, t) ==
    [search_config_id |-> cid,
     title |-> d["title"],
     description |-> DictGet(d, "description"),
     url |-> d["url"],
     url_to_image |-> DictGet(d, "urlToImage"),
     published_at |-> d["publishedAt"],
     content |-> DictGet(d, "content"),
     source_id |-> SourceId(d),
     source_name |-> SourceName(d),
     author |-> DictGet(d, "author"),
     created_at |-> t,
     is_read |-> FALSE]

-----------------------------------------------------------------------------
(* fetch_news_for_config, one celery worker slot per invocation in flight.  *)
(* pc is where the task stands: "idle" (no invocation), "received" (the     *)
(* message is queued or redelivered), "request" (requests.get in flight),   *)
(* "get" / "create" / "reget" (the queries of get_or_create for record i),  *)
(* "save" (the loop is over), "retry" (self.retry scheduled a redelivery),  *)
(* "done" (the task returned result), "failed" (the task raised).           *)

max_retries == 3
RetryBase == 60
pageSize == 100

NoConfig == [id |-> 0]
NoResult == [status |-> "none"]
NoResponse == [kind |-> "none", status_code |-> 0, data |-> <<>>]

IdleWorker ==
    [pc |-> "idle", config_id |-> 0, news_api_key |-> None, retries |-> 0,
     config |-> NoConfig, api_key |-> None, params |-> <<>>, response |-> NoResponse,
     articles |-> <<>>,
     i |-> 1, created_count |-> 0, duplicate_count |-> 0, result |-> NoResult,
     \* history of the invocation: attempts started, delays asked of celery,
     \* provider calls made, rows inserted, last_executed written
     attempts |-> 0, countdowns |-> <<>>, calls |-> 0, inserted |-> {}, saved |-> FALSE]

\* `x or default`, `if not x`
Truthy(k) == k # None /\ k # ""

\* news_api_key or getattr(settings, 'NEWS_API_KEY', None)
ResolveKeyDefaultOnly(explicit) == NEWS_API_KEY

ResolveKey(explicit) == IF Truthy(explicit) THEN explicit ELSE NEWS_API_KEY

NextRecordSkipsSave(w) == IF w.i + 1 > Len(w.articles) THEN "done" ELSE "get"

\* the record after the one a worker is at, or the end of the loop
NextRecord(w) == IF w.i + 1 > Len(w.articles) THEN "save" ELSE "get"

Step(w) == [w EXCEPT !.i = w.i + 1, !.pc = NextRecord(w)]

\* fetch_news_for_config.delay(config_id, news_api_key)
Invoke(w, cid, key) ==
    /\ ws[w].pc = "idle"
    /\ ws' = [ws EXCEPT ![w] = [IdleWorker EXCEPT !.pc = "received", !.config_id = cid,
                                                  !.news_api_key = key]]
    /\ UNCHANGED <<users, configs, articles, lastUserId, lastConfigId, lastArticleId,
                   now, NEWS_API_KEY, api, self, ret,
                   queue, periodic, snapshot>>

\* NewsSearchConfig.objects.get(id=config_id, is_active=True) raises DoesNotExist
DoesNotExistAnyActive(cid) == cid \notin DOMAIN configs

DoesNotExist(cid) == cid \notin DOMAIN configs \/ ~configs[cid].is_active

\* the task body up to the provider call: load the configuration, resolve the key,
\* build the parameters
StartResult(w) ==
    LET cid == w.config_id
        key == ResolveKey(w.news_api_key)
        started == [w EXCEPT !.attempts = @ + 1]
    IN  IF DoesNotExist(cid)
        THEN [started EXCEPT !.pc = "done",
                             !.result = [error |-> "Configuration not found or inactive"]]
        ELSE IF ~Truthy(key)
        THEN [started EXCEPT !.pc = "done", !.config = Put(configs[cid], "id", cid),
                             !.result = [error |-> "No NewsAPI key configured"]]
        ELSE [started EXCEPT !.pc = "request", !.config = Put(configs[cid], "id", cid),
                             !.api_key = key,
                             !.params = Put(Put(get_newsapi_params(configs[cid]),
                                                "apiKey", key), "pageSize", pageSize)]

Start(w) ==
    /\ ws[w].pc = "received"
    /\ ws' = [ws EXCEPT ![w] = StartResult(ws[w])]
    /\ UNCHANGED <<users, configs, articles, lastUserId, lastConfigId, lastArticleId,
                   now, NEWS_API_KEY, api, self, ret,
                   queue, periodic, snapshot>>

\* self.retry(countdown=60 * (self.request.retries + 1), exc=e): celery schedules a
\* redelivery, or re-raises exc once request.retries + 1 exceeds max_retries
RetrySavesWhenExhausted(w) ==
    IF w.retries + 1 > max_retries
    THEN [w EXCEPT !.pc = "save"]
    ELSE [w EXCEPT !.pc = "retry",
                   !.countdowns = Append(@, RetryBase * (w.retries + 1))]

RetryOneShort(w) ==
    IF w.retries + 1 >= max_retries
    THEN [w EXCEPT !.pc = "failed"]
    ELSE [w EXCEPT !.pc = "retry",
                   !.countdowns = Append(@, RetryBase * (w.retries + 1))]

Retry(w) ==
    IF w.retries + 1 > max_retries
    THEN [w EXCEPT !.pc = "failed"]
    ELSE [w EXCEPT !.pc = "retry",
                   !.countdowns = Append(@, RetryBase * (w.retries + 1))]

\* requests.get raised (no response), or raise_for_status() did
RequestException(r) == r.kind = "transport" \/ r.status_code >= 400

\* data.get('message', 'Unknown NewsAPI error')
ErrorMessage(data) == IF Has(data, "message") THEN data["message"] ELSE "Unknown NewsAPI error"

\* the provider call returns: lines 46-63
Respond(w, r) ==
    IF RequestException(r) THEN Retry(w)
    ELSE IF ~Has(r.data, "status") \/ r.data["status"] # "ok"
    THEN [w EXCEPT !.pc = "done",
                   !.result = [error |-> "NewsAPI error: ", message |-> ErrorMessage(r.data)]]
    ELSE LET got == IF Has(r.data, "articles") THEN r.data["articles"] ELSE <<>>
         IN  [w EXCEPT !.articles = got, !.i = 1, !.created_count = 0,
                       !.duplicate_count = 0,
                       !.pc = IF got = <<>> THEN "save" ELSE "get"]

ProviderCall(w, r) ==
    /\ ws[w].pc = "request"
    /\ ws' = [ws EXCEPT ![w] = Respond([ws[w] EXCEPT !.calls = @ + 1, !.response = r], r)]
    /\ UNCHANGED <<users, configs, articles, lastUserId, lastConfigId, lastArticleId,
                   now, NEWS_API_KEY, api, self, ret,
                   queue, periodic, snapshot>>

\* an invocation from its submission to the provider's answer, for runs in which
\* nothing else needs to happen between the load of the configuration and the answer
Fetch(w, cid, key, r) ==
    /\ ws[w].pc = "idle"
    /\ LET started == StartResult([IdleWorker EXCEPT !.pc = "received", !.config_id = cid,
                                                     !.news_api_key = key])
       IN  ws' = [ws EXCEPT ![w] =
                    IF started.pc = "request"
                    THEN Respond([started EXCEPT !.calls = @ + 1, !.response = r], r)
                    ELSE started]
    /\ UNCHANGED <<users, configs, articles, lastUserId, lastConfigId, lastArticleId,
                   now, NEWS_API_KEY, api, self, ret,
                   queue, periodic, snapshot>>

\* celery redelivers the task after the countdown: the same arguments, one more
\* retry on the request, and the body starts over
Redeliver(w) ==
    /\ ws[w].pc = "retry"
    /\ ws' = [ws EXCEPT ![w] = [IdleWorker EXCEPT
                 !.pc = "received", !.config_id = ws[w].config_id,
                 !.news_api_key = ws[w].news_api_key, !.retries = ws[w].retries + 1,
                 !.attempts = ws[w].attempts, !.countdowns = ws[w].countdowns,
                 !.calls = ws[w].calls, !.inserted = ws[w].inserted,
                 !.saved = ws[w].saved]]
    /\ UNCHANGED <<users, configs, articles, lastUserId, lastConfigId, lastArticleId,
                   now, NEWS_API_KEY, api, self, ret,
                   queue, periodic, snapshot>>

GetRecordAbortOnKeyError(w) ==
    LET d == w.articles[w.i] IN
    IF KeyError(d) THEN [w EXCEPT !.pc = "done", !.result = [error |-> "Unexpected error: "]]
    ELSE IF ByUrl(d["url"]) # {} THEN Step([w EXCEPT !.duplicate_count = @ + 1])
    ELSE [w EXCEPT !.pc = "create"]

GetRecordCreatedWhenFound(w) ==
    LET d == w.articles[w.i] IN
    IF KeyError(d) THEN Step(w)
    ELSE IF ByUrl(d["url"]) # {} THEN Step([w EXCEPT !.created_count = @ + 1])
    ELSE [w EXCEPT !.pc = "create"]

\* create_from_newsapi, first query of get_or_create: the arguments are evaluated
\* (a KeyError skips the record), then SELECT ... WHERE url = ...
GetRecord(w) ==
    LET d == w.articles[w.i] IN
    IF KeyError(d) THEN Step(w)
    ELSE IF ByUrl(d["url"]) # {} THEN Step([w EXCEPT !.duplicate_count = @ + 1])
    ELSE [w EXCEPT !.pc = "create"]

\* what get_or_create does to the table when its SELECT finds the row: nothing, the
\* defaults are not applied
ExistingOverwritten(table, d, cid, t) ==
    IF KeyError(d) \/ ByUrl(d["url"]) = {} THEN table
    ELSE [id \in DOMAIN table |-> IF table[id].url = d["url"] THEN ArticleRow(d, cid, t)
                                  ELSE table[id]]

Existing(table, d, cid, t) == table

Get(w) ==
    /\ ws[w].pc = "get"
    /\ ws' = [ws EXCEPT ![w] = GetRecord(ws[w])]
    /\ articles' = Existing(articles, ws[w].articles[ws[w].i], ws[w].config.id, now)
    /\ UNCHANGED <<users, configs, lastUserId, lastConfigId, lastArticleId,
                   now, NEWS_API_KEY, api, self, ret,
                   queue, periodic, snapshot>>

\* get_or_create's INSERT: a ValidationError leaves get_or_create (the record is
\* skipped), an IntegrityError sends it to the second SELECT
Create(w) ==
    /\ ws[w].pc = "create"
    /\ LET row == ArticleRow(ws[w].articles[ws[w].i], ws[w].config.id, now)
           id == lastArticleId + 1
       IN  IF ValidationError(row)
           THEN /\ ws' = [ws EXCEPT ![w] = Step(@)]
                /\ UNCHANGED <<articles, lastArticleId>>
           ELSE IF ArticleIntegrityError(row)
           THEN /\ ws' = [ws EXCEPT ![w] = [@ EXCEPT !.pc = "reget"]]
                /\ UNCHANGED <<articles, lastArticleId>>
           ELSE /\ articles' = Insert(articles, id, row)
                /\ lastArticleId' = id
                /\ ws' = [ws EXCEPT ![w] = Step([@ EXCEPT !.created_count = @ + 1,
                                                          !.inserted = @ \cup {id}])]
    /\ UNCHANGED <<users, configs, lastUserId, lastConfigId, now, NEWS_API_KEY, api,
                   self, ret,
                   queue, periodic, snapshot>>

RegetRecordReraise(w) == Step(w)

\* get_or_create after the IntegrityError: SELECT again, and re-raise when the row
\* is still not there
RegetRecord(w) ==
    IF ByUrl(w.articles[w.i]["url"]) # {}
    THEN Step([w EXCEPT !.duplicate_count = @ + 1])
    ELSE Step(w)

Reget(w) ==
    /\ ws[w].pc = "reget"
    /\ ws' = [ws EXCEPT ![w] = RegetRecord(ws[w])]
    /\ UNCHANGED <<users, configs, articles, lastUserId, lastConfigId, lastArticleId,
                   now, NEWS_API_KEY, api, self, ret,
                   queue, periodic, snapshot>>

\* the result dict of lines 83-90
Success(w) ==
    [config_id |-> w.config_id, config_name |-> w.config.name,
     total_articles |-> Len(w.articles), created_count |-> w.created_count,
     duplicate_count |-> w.duplicate_count, status |-> "success"]

SaveAllFields(w) ==
    /\ ws[w].pc = "save"
    /\ LET c == ws[w].config IN
       /\ configs' = Insert(configs, c.id, ConfigRow(c.user_id, c, c.created_at, now, now))
       /\ ws' = [ws EXCEPT ![w] = [@ EXCEPT !.pc = "done", !.saved = TRUE,
                                            !.config.last_executed = now,
                                            !.result = Success(ws[w])]]
    /\ UNCHANGED <<users, articles, lastUserId, lastConfigId, lastArticleId, now,
                   NEWS_API_KEY, api, self, ret,
                   queue, periodic, snapshot>>

\* config.save(update_fields=['last_executed']): an UPDATE of that one column; when
\* the row is gone it raises DatabaseError, which line 100 turns into a result
Save(w) ==
    /\ ws[w].pc = "save"
    /\ IF ws[w].config.id \in DOMAIN configs
       THEN /\ configs' = [configs EXCEPT ![ws[w].config.id].last_executed = now]
            /\ ws' = [ws EXCEPT ![w] = [@ EXCEPT !.pc = "done", !.saved = TRUE,
                                                 !.config.last_executed = now,
                                                 !.result = Success(ws[w])]]
       ELSE /\ ws' = [ws EXCEPT ![w] = [@ EXCEPT !.pc = "done",
                                                 !.result = [error |-> "Unexpected error: "]]]
            /\ UNCHANGED configs
    /\ UNCHANGED <<users, articles, lastUserId, lastConfigId, lastArticleId, now,
                   NEWS_API_KEY, api, self, ret,
                   queue, periodic, snapshot>>

-----------------------------------------------------------------------------
(* The periodic tasks fetch_news_for_all_active_configs and                  *)
(* cleanup_old_articles; one of them runs at a time, a query per step.       *)

NoTask ==
    [task |-> "none", pc |-> "idle", news_api_key |-> None, days_to_keep |-> 0,
     cutoff_date |-> 0, count |-> 0, result |-> NoResult]

AllConfigs == DOMAIN configs

\* NewsSearchConfig.objects.filter(is_active=True)
ActiveConfigs == {cid \in DOMAIN configs : configs[cid].is_active}

\* the rows of a queryset in the order of Meta.ordering = ["-created_at"]: newest first
RECURSIVE Newest(_)
Newest(S) ==
    IF S = {} THEN <<>>
    ELSE LET top == CHOOSE x \in S : \A y \in S : y <= x
         IN  <<top>> \o Newest(S \ {top})

\* fetch_news_for_config.delay(config.id, news_api_key) for the k-th row: the message
\* and the AsyncResult id it is known by
Message(cs, key, k) == [config_id |-> cs[k], news_api_key |-> key, id |-> Len(queue) + k]

\* the entry appended to results for the k-th row
Scheduled(cs, key, k) ==
    [config_id |-> cs[k], config_name |-> configs[cs[k]].name,
     task_id |-> Message(cs, key, k).id, status |-> "scheduled"]

\* fetch_news_for_all_active_configs up to active_configs.exists()
fetch_news_for_all_active_configs(news_api_key) ==
    /\ periodic.pc = "idle"
    /\ periodic' =
          IF ActiveConfigs = {}
          THEN [NoTask EXCEPT !.task = "fetch_news_for_all_active_configs", !.pc = "done",
                              !.news_api_key = news_api_key,
                              !.result = [message |-> "No active configurations",
                                          configs_processed |-> 0]]
          ELSE [NoTask EXCEPT !.task = "fetch_news_for_all_active_configs",
                              !.pc = "iterate", !.news_api_key = news_api_key]
    /\ UNCHANGED <<users, configs, articles, lastUserId, lastConfigId, lastArticleId,
                   now, NEWS_API_KEY, ws, api, self, ret, queue, snapshot>>

\* for config in active_configs: the queryset is evaluated, one message is submitted
\* and one entry appended per row, and the summary is returned
IterateActiveConfigs ==
    /\ periodic.task = "fetch_news_for_all_active_configs"
    /\ periodic.pc = "iterate"
    /\ LET cs == Newest(ActiveConfigs)
           key == periodic.news_api_key
           results == [k \in 1..Len(cs) |-> Scheduled(cs, key, k)]
       IN  /\ queue' = queue \o [k \in 1..Len(cs) |-> Message(cs, key, k)]
           /\ periodic' = [periodic EXCEPT
                  !.pc = "done",
                  !.result = [message |-> "Scheduled news fetch for configurations",
                              configs_processed |-> Len(results),
                              scheduled_tasks |-> results, status |-> "success"]]
    /\ UNCHANGED <<users, configs, articles, lastUserId, lastConfigId, lastArticleId,
                   now, NEWS_API_KEY, ws, api, self, ret, snapshot>>

\* celery hands the oldest message to a free worker slot
Deliver(w) ==
    /\ ws[w].pc = "idle"
    /\ queue # <<>>
    /\ ws' = [ws EXCEPT ![w] = [IdleWorker EXCEPT !.pc = "received",
                                                  !.config_id = Head(queue).config_id,
                                                  !.news_api_key = Head(queue).news_api_key]]
    /\ queue' = Tail(queue)
    /\ UNCHANGED <<users, configs, articles, lastUserId, lastConfigId, lastArticleId,
                   now, NEWS_API_KEY, api, self, ret, periodic, snapshot>>

\* NewsArticle.objects.filter(created_at__lt=cutoff_date)
old_articles(cutoff_date) == {id \in DOMAIN articles : articles[id].created_at < cutoff_date}

\* the result dict of lines 188-192 and 195-199
CleanupResult(count, cutoff_date) ==
    [deleted_count |-> count, cutoff_date |-> cutoff_date, status |-> "success"]

\* cleanup_old_articles up to old_articles.count(); the clock counts days
cleanup_old_articles(days_to_keep) ==
    /\ periodic.pc = "idle"
    /\ LET cutoff_date == now - days_to_keep
           count == Cardinality(old_articles(cutoff_date))
           started == [NoTask EXCEPT !.task = "cleanup_old_articles",
                                     !.days_to_keep = days_to_keep,
                                     !.cutoff_date = cutoff_date, !.count = count]
       IN  periodic' = IF count > 0 THEN [started EXCEPT !.pc = "delete"]
                       ELSE [started EXCEPT !.pc = "done",
                                            !.result = CleanupResult(0, cutoff_date)]
    /\ UNCHANGED <<users, configs, articles, lastUserId, lastConfigId, lastArticleId,
                   now, NEWS_API_KEY, ws, api, self, ret, queue, snapshot>>

\* old_articles.delete(), and the result with the count taken before
DeleteOldArticles ==
    /\ periodic.task = "cleanup_old_articles"
    /\ periodic.pc = "delete"
    /\ articles' = Delete(articles, old_articles(periodic.cutoff_date))
    /\ periodic' = [periodic EXCEPT
                       !.pc = "done",
                       !.result = CleanupResult(periodic.count, periodic.cutoff_date)]
    /\ UNCHANGED <<users, configs, lastUserId, lastConfigId, lastArticleId,
                   now, NEWS_API_KEY, ws, api, self, ret, queue, snapshot>>

-----------------------------------------------------------------------------
(* The management API. A handler that issues one query is one action; one    *)
(* that issues several holds the api slot between them: pc is "get",         *)
(* "create", "reget" (the queries of get_or_create for record i), "save"     *)
(* (update_config between its SELECT and its UPDATE) or "done" (answered     *)
(* with status).                                                             *)

NoRequest ==
    [op |-> "none", pc |-> "done", status |-> 0, config |-> NoConfig, payload |-> <<>>,
     records |-> <<>>, i |-> 1, out |-> <<>>]

Request(op) == [NoRequest EXCEPT !.op = op]

Answer(r, status) == [NoRequest EXCEPT !.op = r.op, !.status = status, !.out = r.out]

\* get_object_or_404(NewsSearchConfig, id=cid) finds no row
Http404(cid) == cid \notin DOMAIN configs

\* create_config: the default user is fetched or created, then the row is inserted;
\* a None in a NOT NULL column fails the INSERT after the user was created
DefaultUsers == {u \in DOMAIN users : users[u] = "default_user"}

create_config(payload) ==
    /\ api.pc = "done"
    /\ lastConfigId < MaxConfigs
    /\ LET uid == IF DefaultUsers = {} THEN lastUserId + 1 ELSE CHOOSE u \in DefaultUsers : TRUE
       IN  /\ users' = Insert(users, uid, "default_user")
           /\ lastUserId' = IF DefaultUsers = {} THEN uid ELSE lastUserId
           /\ IF ConfigIntegrityError(payload)
              THEN /\ api' = Answer(Request("create_config"), 500)
                   /\ UNCHANGED <<configs, lastConfigId>>
              ELSE /\ configs' = Insert(configs, lastConfigId + 1,
                                        ConfigRow(uid, payload, now, now, NullTime))
                   /\ lastConfigId' = lastConfigId + 1
                   /\ api' = Answer(Request("create_config"), 200)
    /\ UNCHANGED <<articles, lastArticleId, now, NEWS_API_KEY, ws, self, ret,
                   queue, periodic, snapshot>>

\* update_config, its SELECT
update_config(config_id, payload) ==
    /\ api.pc = "done"
    /\ api' = IF Http404(config_id) THEN Answer(Request("update_config"), 404)
              ELSE [Request("update_config") EXCEPT !.pc = "save", !.payload = payload,
                        !.config = Put(configs[config_id], "id", config_id)]
    /\ UNCHANGED <<users, configs, articles, lastUserId, lastConfigId, lastArticleId,
                   now, NEWS_API_KEY, ws, self, ret,
                   queue, periodic, snapshot>>

\* the created_at a full save writes: as loaded in its UPDATE, the time of the
\* save (auto_now_add) in the INSERT that follows an UPDATE that matched no row
SavedCreatedAt(c) == IF c.id \in DOMAIN configs THEN c.created_at ELSE now

\* update_config, config.save(): every column is written from the instance (the
\* payload's fields, the rest as loaded, updated_at now); an UPDATE that matches no
\* row is followed by an INSERT of the instance
update_config_save ==
    /\ api.op = "update_config" /\ api.pc = "save"
    /\ LET c == api.config
           row == ConfigRow(c.user_id, api.payload, SavedCreatedAt(c), now, c.last_executed)
       IN  IF ConfigIntegrityError(api.payload) \/ c.user_id \notin DOMAIN users
           THEN /\ api' = Answer(api, 500)
                /\ UNCHANGED configs
           ELSE /\ configs' = Insert(configs, c.id, row)
                /\ api' = Answer(api, 200)
    /\ UNCHANGED <<users, articles, lastUserId, lastConfigId, lastArticleId, now,
                   NEWS_API_KEY, ws, self, ret,
                   queue, periodic, snapshot>>

\* get_config: get_object_or_404 and the row as the answer
get_config(config_id) ==
    /\ api.pc = "done"
    /\ api' = IF Http404(config_id) THEN Answer(Request("get_config"), 404)
              ELSE Answer([Request("get_config") EXCEPT !.out = <<config_id>>], 200)
    /\ UNCHANGED <<users, configs, articles, lastUserId, lastConfigId, lastArticleId,
                   now, NEWS_API_KEY, ws, self, ret,
                   queue, periodic, snapshot>>

\* update_last_executed, its SELECT
update_last_executed(config_id) ==
    /\ api.pc = "done"
    /\ api' = IF Http404(config_id) THEN Answer(Request("update_last_executed"), 404)
              ELSE [Request("update_last_executed") EXCEPT
                        !.pc = "save",
                        !.config = Put(configs[config_id], "id", config_id)]
    /\ UNCHANGED <<users, configs, articles, lastUserId, lastConfigId, lastArticleId,
                   now, NEWS_API_KEY, ws, self, ret,
                   queue, periodic, snapshot>>

\* update_last_executed, config.save(): every column is written from the instance
\* as loaded, last_executed and updated_at now
update_last_executed_save ==
    /\ api.op = "update_last_executed" /\ api.pc = "save"
    /\ LET c == api.config
           row == ConfigRow(c.user_id, c, SavedCreatedAt(c), now, now)
       IN  IF c.user_id \notin DOMAIN users
           THEN /\ api' = Answer(api, 500)
                /\ UNCHANGED configs
           ELSE /\ configs' = Insert(configs, c.id, row)
                /\ api' = Answer([api EXCEPT !.out = <<c.id>>], 200)
    /\ UNCHANGED <<users, articles, lastUserId, lastConfigId, lastArticleId, now,
                   NEWS_API_KEY, ws, self, ret,
                   queue, periodic, snapshot>>

\* the orders a queryset over the articles S can come in: Meta.ordering is
\* -published_at, and rows with the same published_at come in any order
Orderings(S) ==
    {q \in [1..Cardinality(S) -> S] :
        \A i, j \in 1..Cardinality(S) :
            /\ (i # j => q[i] # q[j])
            /\ articles[q[i]].published_at = articles[q[j]].published_at}

\* get_config_articles: get_object_or_404 and config.articles.all()
get_config_articles(config_id) ==
    /\ api.pc = "done"
    /\ IF Http404(config_id)
       THEN api' = Answer(Request("get_config_articles"), 404)
       ELSE \E q \in Orderings(ArticlesOf(config_id)) :
               api' = Answer([Request("get_config_articles") EXCEPT !.out = q], 200)
    /\ UNCHANGED <<users, configs, articles, lastUserId, lastConfigId, lastArticleId,
                   now, NEWS_API_KEY, ws, self, ret,
                   queue, periodic, snapshot>>

delete_config_NoLookup(config_id) ==
    /\ api.pc = "done"
    /\ configs' = Delete(configs, {config_id})
    /\ articles' = Delete(articles, ArticlesOf(config_id))
    /\ api' = Answer(Request("delete_config"), 200)
    /\ UNCHANGED <<users, lastUserId, lastConfigId, lastArticleId, now, NEWS_API_KEY,
                   ws, self, ret,
                   queue, periodic, snapshot>>

\* delete_config: the row and, by on_delete=CASCADE, its articles
delete_config(config_id) ==
    /\ api.pc = "done"
    /\ IF Http404(config_id)
       THEN /\ api' = Answer(Request("delete_config"), 404)
            /\ UNCHANGED <<configs, articles>>
       ELSE /\ configs' = Delete(configs, {config_id})
            /\ articles' = Delete(articles, ArticlesOf(config_id))
            /\ api' = Answer(Request("delete_config"), 200)
    /\ UNCHANGED <<users, lastUserId, lastConfigId, lastArticleId, now, NEWS_API_KEY,
                   ws, self, ret,
                   queue, periodic, snapshot>>

\* user.delete(): the row and, by on_delete=CASCADE twice, the user's configurations
\* and their articles
delete_user(uid) ==
    /\ api.pc = "done"
    /\ uid \in DOMAIN users
    /\ users' = Delete(users, {uid})
    /\ configs' = Delete(configs, ConfigsOf(uid))
    /\ articles' = Delete(articles, UNION {ArticlesOf(cid) : cid \in ConfigsOf(uid)})
    /\ api' = Answer(Request("delete_user"), 200)
    /\ UNCHANGED <<lastUserId, lastConfigId, lastArticleId, now, NEWS_API_KEY, ws, self, ret,
                   queue, periodic, snapshot>>

\* create_article's defaults, with the url and the columns the model fills in
PayloadRow(p, cid, t) ==
    [search_config_id |-> cid, title |-> p.title, description |-> p.description,
     url |-> p.url, url_to_image |-> p.url_to_image, published_at |-> p.published_at,
     content |-> p.content, source_id |-> p.source_id, source_name |-> p.source_name,
     author |-> p.author, created_at |-> t, is_read |-> FALSE]

\* the row the request in flight inserts for its record i
ApiRow(r, t) ==
    IF r.op = "create_article" THEN PayloadRow(r.records[r.i], r.config.id, t)
    ELSE ArticleRow(r.records[r.i], r.config.id, t)

\* the url the request in flight looks up for its record i
ApiUrl(r) == IF r.op = "create_article" THEN r.records[r.i].url ELSE r.records[r.i]["url"]

\* the handler goes on with the article it got: create_article returns it,
\* create_articles_from_newsapi appends it and takes the next record
ApiGot(r, id) ==
    LET got == [r EXCEPT !.out = Append(@, id), !.i = @ + 1] IN
    IF got.i > Len(got.records) THEN Answer(got, 200) ELSE [got EXCEPT !.pc = "get"]

\* create_article, its get_object_or_404
create_article(payload) ==
    /\ api.pc = "done"
    /\ api' = IF Http404(payload.search_config_id) THEN Answer(Request("create_article"), 404)
              ELSE [Request("create_article") EXCEPT !.pc = "get", !.records = <<payload>>,
                        !.config = Put(configs[payload.search_config_id], "id",
                                       payload.search_config_id)]
    /\ UNCHANGED <<users, configs, articles, lastUserId, lastConfigId, lastArticleId,
                   now, NEWS_API_KEY, ws, self, ret,
                   queue, periodic, snapshot>>

\* create_articles_from_newsapi, its get_object_or_404
create_articles_from_newsapi(search_config_id, articles_data) ==
    /\ api.pc = "done"
    /\ api' = IF Http404(search_config_id)
              THEN Answer(Request("create_articles_from_newsapi"), 404)
              ELSE IF articles_data = <<>>
              THEN Answer(Request("create_articles_from_newsapi"), 200)
              ELSE [Request("create_articles_from_newsapi") EXCEPT
                        !.pc = "get", !.records = articles_data,
                        !.config = Put(configs[search_config_id], "id", search_config_id)]
    /\ UNCHANGED <<users, configs, articles, lastUserId, lastConfigId, lastArticleId,
                   now, NEWS_API_KEY, ws, self, ret,
                   queue, periodic, snapshot>>

ApiGetResultAlwaysCreate(r) ==
    IF r.op = "create_articles_from_newsapi" /\ KeyError(r.records[r.i]) THEN Answer(r, 500)
    ELSE [r EXCEPT !.pc = "create"]

\* the first SELECT of get_or_create; in create_articles_from_newsapi nothing catches
\* the KeyError of a malformed record
ApiGetResult(r) ==
    IF r.op = "create_articles_from_newsapi" /\ KeyError(r.records[r.i]) THEN Answer(r, 500)
    ELSE IF ByUrl(ApiUrl(r)) # {} THEN ApiGot(r, CHOOSE id \in ByUrl(ApiUrl(r)) : TRUE)
    ELSE [r EXCEPT !.pc = "create"]

ApiGet ==
    /\ api.pc = "get"
    /\ api' = ApiGetResult(api)
    /\ UNCHANGED <<users, configs, articles, lastUserId, lastConfigId, lastArticleId,
                   now, NEWS_API_KEY, ws, self, ret,
                   queue, periodic, snapshot>>

\* the INSERT of get_or_create
ApiCreate ==
    /\ api.pc = "create"
    /\ LET row == ApiRow(api, now)
           id == lastArticleId + 1
       IN  IF ValidationError(row)
           THEN /\ api' = Answer(api, 500)
                /\ UNCHANGED <<articles, lastArticleId>>
           ELSE IF ArticleIntegrityError(row)
           THEN /\ api' = [api EXCEPT !.pc = "reget"]
                /\ UNCHANGED <<articles, lastArticleId>>
           ELSE /\ articles' = Insert(articles, id, row)
                /\ lastArticleId' = id
                /\ api' = ApiGot(api, id)
    /\ UNCHANGED <<users, configs, lastUserId, lastConfigId, now, NEWS_API_KEY, ws,
                   self, ret,
                   queue, periodic, snapshot>>

\* the second SELECT of get_or_create, after the IntegrityError
ApiRegetResult(r) ==
    IF ByUrl(ApiUrl(r)) # {} THEN ApiGot(r, CHOOSE id \in ByUrl(ApiUrl(r)) : TRUE)
    ELSE Answer(r, 500)

ApiReget ==
    /\ api.pc = "reget"
    /\ api' = ApiRegetResult(api)
    /\ UNCHANGED <<users, configs, articles, lastUserId, lastConfigId, lastArticleId,
                   now, NEWS_API_KEY, ws, self, ret,
                   queue, periodic, snapshot>>

\* time passes
Tick ==
    /\ now < MaxTime
    /\ now' = now + 1
    /\ UNCHANGED <<users, configs, articles, lastUserId, lastConfigId, lastArticleId,
                   NEWS_API_KEY, ws, api, self, ret,
                   queue, periodic, snapshot>>

-----------------------------------------------------------------------------
(* Inputs: what clients, the scheduler and the provider can send. *)

\* a NewsSearchConfigCreateSchema payload: name is required, the others default
Payload(keywords, sources, is_active) ==
    [name |-> "n", keywords |-> keywords, country |-> "us", category |-> "general",
     sources |-> sources, sort_by |-> "publishedAt", frequency |-> "daily",
     is_active |-> is_active]

\* the payloads of the requests that create, edit and switch off a configuration
PayloadNew == Payload(<<>>, <<>>, TRUE)
PayloadEdit == Payload(<<"a">>, <<>>, TRUE)
PayloadOff == Payload(<<>>, <<>>, FALSE)

\* a provider record with every key, as the sample record of the tests
Full(u, t) ==
    [source |-> [id |-> "bbc-news", name |-> "BBC News"], author |-> "John Doe",
     title |-> t, description |-> "d", url |-> u, urlToImage |-> "img",
     publishedAt |-> "2023-12-01T10:00:00Z", content |-> "c"]

\* a provider record with the required keys only
Bare(u, t) == [title |-> t, url |-> u, publishedAt |-> "2023-12-01T10:00:00Z"]

\* a provider record with the required keys and a source object
WithSource(u, src) ==
    [title |-> "t1", url |-> u, publishedAt |-> "2023-12-01T10:00:00Z", source |-> src]

\* a provider record whose title is null
NullTitle(u) == [title |-> None, url |-> u, publishedAt |-> "2023-12-01T10:00:00Z"]

\* provider records that fail: no title, a publish time that is no datetime
NoTitle(u) == [url |-> u, publishedAt |-> "2023-12-01T10:00:00Z"]
BadDate(u) == [title |-> "t1", url |-> u, publishedAt |-> "invalid"]

RECURSIVE SeqsUpTo(_, _)
SeqsUpTo(S, n) ==
    IF n = 0 THEN {<<>>}
    ELSE SeqsUpTo(S, n - 1) \cup
         {Append(q, x) : q \in {r \in SeqsUpTo(S, n - 1) : Len(r) = n - 1}, x \in S}

\* what requests.get can end in: no response at all, or a response with an HTTP
\* status and a JSON body
Transport == [kind |-> "transport", status_code |-> 0, data |-> <<>>]
Http(code, data) == [kind |-> "http", status_code |-> code, data |-> data]
Ok(records) == Http(200, [status |-> "ok", totalResults |-> Len(records), articles |-> records])
ProviderError(code) == Http(code, [status |-> "error", code |-> "apiKeyInvalid", message |-> "m"])

-----------------------------------------------------------------------------
(* get_newsapi_params on its own: a configuration instance, and the call. *)

Instances ==
    [keywords : Texts(MaxLen), sources : Texts(MaxLen), country : COUNTRY_CHOICES,
     category : CATEGORY_CHOICES, sort_by : SORT_BY_CHOICES]

NotCalled == <<>>

InitDb ==
    /\ users = <<>>
    /\ configs = <<>>
    /\ articles = <<>>
    /\ lastUserId = 0
    /\ lastConfigId = 0
    /\ lastArticleId = 0
    /\ now = 1
    /\ ws = [w \in Workers |-> IdleWorker]
    /\ api = NoRequest
    /\ queue = <<>>
    /\ periodic = NoTask
    /\ snapshot = NoSnapshot

InitParams ==
    /\ InitDb
    /\ NEWS_API_KEY = None
    /\ self \in Instances
    /\ ret = NotCalled

CallParams ==
    /\ ret = NotCalled
    /\ ret' = get_newsapi_params(self)
    /\ UNCHANGED <<users, configs, articles, lastUserId, lastConfigId, lastArticleId,
                   now, NEWS_API_KEY, ws, api, self,
                   queue, periodic, snapshot>>

NextParams == CallParams

SpecParams == InitParams /\ [][NextParams]_vars

\* C5: the returned parameters hold country and category exactly when sources is
\* empty: with sources neither key is there, without sources both are, with the
\* stored values
C5_CountryCategoryIffNoSources ==
    ret # NotCalled =>
        /\ ("country" \in DOMAIN ret) <=> (self.sources = <<>>)
        /\ ("category" \in DOMAIN ret) <=> (self.sources = <<>>)
        /\ self.sources = <<>> => ret["country"] = self.country /\ ret["category"] = self.category

C5_Witness ==
    /\ ret # NotCalled
    /\ self.sources = <<"a">>
    /\ self.country = "uk"
    /\ self.category = "business"
    /\ "sources" \in DOMAIN ret

\* C6: the result has exactly the keys sortBy, q when keywords is not empty, and
\* either sources or country and category; sortBy and q carry the stored values
C6_ExactKeys ==
    ret # NotCalled =>
        /\ DOMAIN ret = {"sortBy"}
                        \cup (IF self.keywords # <<>> THEN {"q"} ELSE {})
                        \cup (IF self.sources # <<>> THEN {"sources"}
                              ELSE {"country", "category"})
        /\ ret["sortBy"] = self.sort_by
        /\ self.keywords # <<>> => ret["q"] = self.keywords

C6_Witness ==
    /\ ret # NotCalled
    /\ self.keywords = <<>>
    /\ self.sources = <<>>
    /\ DOMAIN ret = {"sortBy", "country", "category"}

-----------------------------------------------------------------------------
(* One worker, every outcome of the provider call, and the API requests that *)
(* create and delete configurations around it.                               *)

Unbound ==
    [keywords |-> <<>>, sources |-> <<>>, country |-> "us", category |-> "general",
     sort_by |-> "publishedAt"]

RecordsTask == {Full("u1", "t1"), Bare("u2", "t2"), NoTitle("u1"), BadDate("u2")}

ResponsesTask ==
    {Transport, ProviderError(401), ProviderError(200), Http(200, [status |-> "error"])}
    \cup {Ok(q) : q \in SeqsUpTo(RecordsTask, MaxArticles)}

PayloadsTask == {Payload(<<"a">>, <<>>, TRUE), Payload(<<>>, <<"a">>, FALSE)}

\* the "ok" answers given twice
ResponsesTwice == {Ok(q) : q \in SeqsUpTo(RecordsTask, MaxArticles)}

KeysTask == {None, "", "k1"}

InitTask ==
    /\ InitDb
    /\ NEWS_API_KEY \in {None, "k0"}
    /\ self = Unbound
    /\ ret = NotCalled

Task(w) ==
    \/ \E cid \in 1..MaxConfigs, key \in KeysTask : Invoke(w, cid, key)
    \/ Start(w)
    \/ \E r \in ResponsesTask : ProviderCall(w, r)
    \/ Redeliver(w)
    \/ Get(w)
    \/ Create(w)
    \/ Reget(w)
    \/ Save(w)

NextTask ==
    \/ \E p \in PayloadsTask : create_config(p)
    \/ \E cid \in 1..MaxConfigs : delete_config(cid)
    \/ Task("w1")

SpecTask == InitTask /\ [][NextTask]_vars

\* C4: an invocation whose configuration is missing or inactive when it is loaded
\* returns the 'not found or inactive' result in that step, asks for no retry, calls
\* the provider not at all and writes nothing, in that step or before
C4_UnavailableNoWrites ==
    [][\A w \in Workers :
        (/\ ws[w].pc = "received"
         /\ ws'[w] # ws[w]
         /\ (ws[w].config_id \notin DOMAIN configs \/ ~configs[ws[w].config_id].is_active))
        => /\ ws'[w].pc = "done"
           /\ ws'[w].result = [error |-> "Configuration not found or inactive"]
           /\ ws'[w].calls = ws[w].calls
           /\ ws'[w].countdowns = ws[w].countdowns
           /\ ws'[w].inserted = {}
           /\ ~ws'[w].saved
           /\ articles' = articles
           /\ configs' = configs]_vars

C4_Witness ==
    \E w \in Workers :
        /\ ws[w].pc = "done"
        /\ ws[w].result = [error |-> "Configuration not found or inactive"]
        /\ ws[w].config_id \in DOMAIN configs
        /\ ~configs[ws[w].config_id].is_active

\* C7 as stated: whenever the response a worker holds carries a status other than
\* "ok", the task has returned an error result with the provider's message, has
\* stored nothing and has not written last_executed
C7_NonOkStatusReturnsError ==
    \A w \in Workers :
        (/\ ws[w].response.kind = "http"
         /\ Has(ws[w].response.data, "status")
         /\ ws[w].response.data["status"] # "ok")
        => /\ ws[w].pc = "done"
           /\ Has(ws[w].result, "message")
           /\ ws[w].result["message"] = ErrorMessage(ws[w].response.data)
           /\ ws[w].inserted = {}
           /\ ~ws[w].saved

\* C8 as stated: a retry is asked for (or the task fails for want of one) only
\* after a transport-level failure
C8_RetryOnlyOnTransport ==
    \A w \in Workers :
        ws[w].pc \in {"retry", "failed"} => ws[w].response.kind = "transport"

\* C9 as stated: the task body is attempted at most 3 times
C9_AtMostThreeAttempts == \A w \in Workers : ws[w].attempts <= 3

\* C9 amended: the task body is attempted at most 4 times (once, and max_retries = 3
\* retries), the k-th retry is asked for with a delay of 60 k seconds, and the
\* invocation fails, with no result, exactly when the fourth attempt fails
C9_FourAttemptsThenFailed ==
    \A w \in Workers :
        /\ ws[w].attempts <= 4
        /\ Len(ws[w].countdowns) <= 3
        /\ \A k \in 1..Len(ws[w].countdowns) : ws[w].countdowns[k] = 60 * k
        /\ ws[w].pc = "failed" =>
              /\ ws[w].attempts = 4
              /\ ws[w].countdowns = <<60, 120, 180>>
              /\ ws[w].result = NoResult

C9_Witness ==
    \E w \in Workers :
        /\ ws[w].pc = "failed"
        /\ ws[w].attempts = 4
        /\ ws[w].calls = 4
        /\ ws[w].response.kind = "transport"

\* C10: the key sent to the provider is the explicit argument when it is given and
\* the default otherwise; with neither, the task returns the 'no key' result, and
\* never calls the provider, writes or asks for a retry
C10_KeyResolution ==
    \A w \in Workers :
        /\ (ws[w].pc = "request" \/ ws[w].response.kind # "none") =>
              /\ ws[w].api_key = IF ws[w].news_api_key \notin {None, ""}
                                 THEN ws[w].news_api_key ELSE NEWS_API_KEY
              /\ ws[w].api_key \notin {None, ""}
              /\ ws[w].params["apiKey"] = ws[w].api_key
        /\ (ws[w].news_api_key \in {None, ""} /\ NEWS_API_KEY \in {None, ""}) =>
              /\ ws[w].calls = 0
              /\ ws[w].pc \in {"idle", "received", "done"}
              /\ ws[w].inserted = {}
              /\ ~ws[w].saved
              /\ ws[w].countdowns = <<>>
              /\ ws[w].pc = "done" => Has(ws[w].result, "error")
        /\ (ws[w].pc = "done" /\ ws[w].result = [error |-> "No NewsAPI key configured"]) =>
              /\ ws[w].news_api_key \in {None, ""}
              /\ NEWS_API_KEY \in {None, ""}

C10_Witness ==
    \E w \in Workers :
        /\ ws[w].pc = "done"
        /\ ws[w].result = [error |-> "No NewsAPI key configured"]
        /\ ws[w].news_api_key = ""
        /\ ws[w].attempts = 1

\* the record a worker is at, when it is in the loop
InLoop(w) == ws[w].pc \in {"get", "create", "reget"}

Record(w) == ws[w].articles[ws[w].i]

\* the step of w fails on its record: a KeyError while the arguments are built, a
\* ValidationError in the INSERT, or an IntegrityError with no row to fall back on
Fails(w) ==
    \/ ws[w].pc = "get" /\ KeyError(Record(w))
    \/ ws[w].pc = "create" /\ ValidationError(ArticleRow(Record(w), ws[w].config.id, now))
    \/ ws[w].pc = "reget" /\ ByUrl(Record(w)["url"]) = {}

\* C11: a step that fails on a record changes neither store nor the counts and goes
\* on to the next record or to the end of the loop; an invocation whose response was
\* "ok" never fails or retries, and returns Success unless its configuration is gone
C11_RecordFailureSkipped ==
    /\ [][\A w \in Workers :
            (InLoop(w) /\ ws'[w] # ws[w] /\ Fails(w))
            => /\ ws'[w] = [ws[w] EXCEPT !.i = @ + 1,
                                         !.pc = IF ws[w].i < Len(ws[w].articles)
                                                THEN "get" ELSE "save"]
               /\ articles' = articles
               /\ configs' = configs]_vars
    /\ [](\A w \in Workers :
            (ws[w].response.kind = "http" /\ ws[w].articles # <<>>)
            => /\ ws[w].pc \in {"get", "create", "reget", "save", "done"}
               /\ (ws[w].pc = "done" /\ ws[w].config_id \in DOMAIN configs)
                    => ws[w].result = Success(ws[w]))

C11_Witness ==
    /\ ws["w1"].pc = "done"
    /\ ws["w1"].articles = <<NoTitle("u1"), Bare("u2", "t2")>>
    /\ ws["w1"].result.status = "success"
    /\ ws["w1"].result.created_count = 1
    /\ \E id \in DOMAIN articles : articles[id].url = "u2"

\* C13 as stated: in a Success result total_articles is the number of records
\* received and created_count the number of rows the invocation inserted, and every
\* record whose URL is stored when it is processed adds one to duplicate_count
C13_CountsAsStated ==
    /\ [](\A w \in Workers :
            (ws[w].pc = "done" /\ Has(ws[w].result, "status"))
            => /\ ws[w].result.total_articles = Len(ws[w].response.data["articles"])
               /\ ws[w].result.created_count = Cardinality(ws[w].inserted)
               /\ ws[w].result.created_count + ws[w].result.duplicate_count
                     <= ws[w].result.total_articles)
    /\ [][\A w \in Workers :
            (/\ ws[w].pc = "get"
             /\ ws'[w] # ws[w]
             /\ Has(Record(w), "url")
             /\ ByUrl(Record(w)["url"]) # {})
            => ws'[w].duplicate_count = ws[w].duplicate_count + 1]_vars

-----------------------------------------------------------------------------
(* Two workers and the article endpoints of the API, racing on the same URLs. *)

RecordsRace == {Full("u1", "t1"), Bare("u1", "t2")}

ResponsesRace == {Ok(q) : q \in SeqsUpTo(RecordsRace, MaxBatch)}

\* a NewsArticleCreateSchema payload
ArticlePayload(cid, u, t) ==
    [search_config_id |-> cid, title |-> t, description |-> None, url |-> u,
     url_to_image |-> None, published_at |-> "2023-12-01T10:00:00Z", content |-> None,
     source_id |-> None, source_name |-> "Test Source", author |-> None]

\* the configurations that race: both exist and are active from the start, as
\* after two create_config requests
RaceConfigs == {1, 2}

\* the bodies clients send to the create-article endpoint, and those of them for
\* the configurations C with a URL of U and a title of T
ArticlePayloads ==
    {ArticlePayload(cid, u, t) :
        cid \in RaceConfigs \cup 1..MaxConfigs, u \in {"u1", "u2"}, t \in {"t3", "t4"}}

PayloadsFor(C, U, T) ==
    {p \in ArticlePayloads : p.search_config_id \in C /\ p.url \in U /\ p.title \in T}

Init ==
    /\ users = [u \in {1} |-> "default_user"]
    /\ configs = [cid \in RaceConfigs |->
                     ConfigRow(1, Payload(<<>>, <<>>, TRUE), 1, 1, NullTime)]
    /\ articles = <<>>
    /\ lastUserId = 1
    /\ lastConfigId = Cardinality(RaceConfigs)
    /\ lastArticleId = 0
    /\ now = 1
    /\ ws = [w \in Workers |-> IdleWorker]
    /\ api = NoRequest
    /\ queue = <<>>
    /\ periodic = NoTask
    /\ snapshot = NoSnapshot
    /\ NEWS_API_KEY = "k0"
    /\ self = Unbound
    /\ ret = NotCalled

Ingest(w) ==
    \/ \E cid \in RaceConfigs, r \in ResponsesRace : Fetch(w, cid, None, r)
    \/ Get(w)
    \/ Create(w)
    \/ Reget(w)
    \/ Save(w)

Next ==
    \/ \E p \in PayloadsFor(RaceConfigs, {"u1"}, {"t3"}) : create_article(p)
    \/ \E cid \in RaceConfigs, q \in SeqsUpTo(RecordsRace, MaxBatch) :
          create_articles_from_newsapi(cid, q)
    \/ ApiGet
    \/ ApiCreate
    \/ ApiReget
    \/ \E w \in Workers : Ingest(w)

Spec == Init /\ [][Next]_vars

\* C1: no two stored articles have the same URL, and a row a worker inserted is
\* stored as owned by that worker's configuration
C1_UrlUnique ==
    /\ \A a, b \in DOMAIN articles : articles[a].url = articles[b].url => a = b
    /\ \A w \in Workers : \A id \in ws[w].inserted :
          id \in DOMAIN articles /\ articles[id].search_config_id = ws[w].config_id

C1_Witness ==
    /\ ws["w1"].pc = "done" /\ ws["w2"].pc = "done"
    /\ ws["w1"].config_id # ws["w2"].config_id
    /\ ws["w1"].articles = <<Full("u1", "t1")>>
    /\ ws["w2"].articles = <<Bare("u1", "t2")>>
    /\ ws["w1"].created_count = 1
    /\ ws["w2"].duplicate_count = 1
    /\ Cardinality(DOMAIN articles) = 1

\* C2: a step in which a worker processes a record whose URL is stored leaves the
\* stored row as it is, every column of it, and adds no second row for the URL
C2_FirstWriteWins ==
    [][\A w \in Workers : \A id \in DOMAIN articles :
        (/\ ws[w].pc \in {"get", "create", "reget"}
         /\ ws'[w] # ws[w]
         /\ ~KeyError(ws[w].articles[ws[w].i])
         /\ articles[id].url = ws[w].articles[ws[w].i]["url"])
        => /\ id \in DOMAIN articles'
           /\ articles'[id] = articles[id]
           /\ \A other \in DOMAIN articles' :
                 articles'[other].url = articles[id].url => other = id]_vars

C2_Witness ==
    \E w \in Workers : \E id \in DOMAIN articles :
        /\ ws[w].pc = "done"
        /\ ws[w].duplicate_count = 1
        /\ ws[w].articles = <<Bare("u1", "t2")>>
        /\ articles[id].url = "u1"
        /\ articles[id].title = "t1"
        /\ articles[id].source_name = "BBC News"
        /\ articles[id].search_config_id # ws[w].config_id

-----------------------------------------------------------------------------
(* The same response twice: worker w1 runs, then w2 is given the same        *)
(* configuration and the same response, and nothing else happens after w1    *)
(* started.                                                                  *)

NextTwice ==
    \/ /\ ws["w1"].pc = "idle"
       /\ \E p \in PayloadsFor(RaceConfigs, {"u1"}, {"t3"}) : create_article(p)
    \/ ApiGet
    \/ ApiCreate
    \/ /\ api.pc = "done"
       /\ \E cid \in RaceConfigs, r \in ResponsesTwice :
             Fetch("w1", cid, None, r)
    \/ /\ ws["w1"].pc = "done"
       /\ Fetch("w2", ws["w1"].config_id, None, ws["w1"].response)
    \/ \E w \in Workers : Get(w) \/ Create(w) \/ Save(w)
    \/ Tick

SpecTwice == Init /\ [][NextTwice]_vars

\* a record that can be stored: the required keys are there and the time is one
WellFormed(d) ==
    /\ Has(d, "url") /\ Has(d, "title") /\ Has(d, "publishedAt")
    /\ d["publishedAt"] # "invalid"

\* C3: the second run creates nothing and ends in success, each of its steps on
\* a well-formed record counts one duplicate, and no step of it changes the
\* article table
C3_SecondRunIdempotent ==
    /\ [](ws["w2"].pc = "done" =>
            /\ ws["w2"].result.status = "success"
            /\ ws["w2"].result.created_count = 0
            /\ ws["w2"].result.duplicate_count >=
                 Cardinality({k \in 1..Len(ws["w2"].articles) :
                                 WellFormed(ws["w2"].articles[k])})
            /\ ws["w2"].inserted = {})
    /\ [][ws'["w2"] # ws["w2"] =>
            /\ articles' = articles
            /\ (ws["w2"].pc = "get" /\ WellFormed(ws["w2"].articles[ws["w2"].i]))
                 => ws'["w2"].duplicate_count = ws["w2"].duplicate_count + 1]_vars

C3_Witness ==
    /\ ws["w2"].pc = "done"
    /\ ws["w1"].articles = <<Full("u1", "t1")>>
    /\ ws["w1"].result.created_count = 1
    /\ ws["w2"].result.duplicate_count = 1
    /\ Cardinality(DOMAIN articles) = 1

\* the provider answered w with status "ok"
AnsweredOk(w) ==
    /\ ws[w].response.kind = "http"
    /\ ws[w].response.status_code < 400
    /\ Has(ws[w].response.data, "status")
    /\ ws[w].response.data["status"] = "ok"

\* C12: last_executed changes only in the step a worker takes after the last record
\* of its batch, to the time of that step and with no other column; while records
\* remain it is not written, and every invocation answered "ok" has written it when
\* it is done, whatever its records came to
C12_LastExecutedAfterBatch ==
    /\ [][configs' # configs =>
            \E w \in Workers :
                /\ ws[w].pc = "save"
                /\ ws[w].i > Len(ws[w].articles)
                /\ ws'[w].pc = "done"
                /\ configs' = [configs EXCEPT ![ws[w].config_id].last_executed = now]]_vars
    /\ [](\A w \in Workers :
            AnsweredOk(w) =>
                /\ InLoop(w) => (~ws[w].saved /\ ws[w].i <= Len(ws[w].articles))
                /\ ws[w].pc = "done" =>
                      /\ ws[w].saved
                      /\ ws[w].config.last_executed \in 1..now
                      /\ configs[ws[w].config_id].last_executed
                            \in ws[w].config.last_executed..now)

C12_Witness ==
    /\ ws["w1"].pc = "done" /\ ws["w2"].pc = "done"
    /\ ws["w2"].articles = <<NoTitle("u1"), Full("u1", "t1")>>
    /\ ws["w1"].result.created_count = 1
    /\ ws["w2"].result.created_count = 0
    /\ ws["w1"].config.last_executed = 1
    /\ ws["w2"].saved
    /\ configs[ws["w2"].config_id].last_executed = 2

-----------------------------------------------------------------------------
(* One ingestion run over records that differ in their source attribution.   *)

\* source objects: with id and name, with a null id, without id, without name, and
\* the null / empty source
SourcesSource ==
    {[id |-> "bbc-news", name |-> "BBC News"], [id |-> None, name |-> "BBC News"],
     [name |-> "BBC News"], [id |-> "bbc-news"], <<>>}

RecordsSource ==
    {WithSource(u, src) : u \in {"u1", "u2"}, src \in SourcesSource}
    \cup {Bare(u, "t1") : u \in {"u1", "u2"}}

ResponsesSource == {Ok(q) : q \in SeqsUpTo(RecordsSource, MaxArticles)}

NextSource ==
    \/ \E cid \in RaceConfigs, r \in ResponsesSource :
          Fetch("w1", cid, None, r)
    \/ Get("w1")
    \/ Create("w1")
    \/ Save("w1")

SpecSource == Init /\ [][NextSource]_vars

\* the record has a source object that names the source
NamedSource(d) == Has(d, "source") /\ Has(d["source"], "name")

\* the record has no source object: the key is absent, or null / empty
NoSource(d) == ~Has(d, "source") \/ DOMAIN d["source"] = {}

\* C14: a record with a new URL and a named source, or no source, is inserted, with
\* the source's name and id (null when it has none) or with "Unknown" and null
C14_SourceAttribution ==
    /\ [][\A w \in Workers :
            (/\ ws[w].pc = "get"
             /\ ws'[w] # ws[w]
             /\ ByUrl(Record(w)["url"]) = {}
             /\ (NamedSource(Record(w)) \/ NoSource(Record(w))))
            => ws'[w].pc = "create"]_vars
    /\ [][\A w \in Workers :
            (ws[w].pc = "create" /\ ws'[w] # ws[w] /\ ByUrl(Record(w)["url"]) = {})
            => LET d == Record(w)
                   new == DOMAIN articles' \ DOMAIN articles
               IN  /\ Cardinality(new) = 1
                   /\ ws'[w].created_count = ws[w].created_count + 1
                   /\ \A id \in new :
                        /\ articles'[id].url = d["url"]
                        /\ articles'[id].search_config_id = ws[w].config_id
                        /\ IF NamedSource(d)
                           THEN /\ articles'[id].source_name = d["source"]["name"]
                                /\ articles'[id].source_id =
                                     IF Has(d["source"], "id") THEN d["source"]["id"]
                                     ELSE None
                           ELSE /\ articles'[id].source_name = "Unknown"
                                /\ articles'[id].source_id = None]_vars

C14_Witness ==
    /\ ws["w1"].pc = "done"
    /\ ws["w1"].articles = <<Bare("u1", "t1"), WithSource("u2", [id |-> None, name |-> "BBC News"])>>
    /\ ws["w1"].result.created_count = 2
    /\ \E a, b \in DOMAIN articles :
          /\ articles[a].url = "u1" /\ articles[a].source_name = "Unknown"
          /\ articles[a].source_id = None
          /\ articles[b].url = "u2" /\ articles[b].source_name = "BBC News"
          /\ articles[b].source_id = None

-----------------------------------------------------------------------------
(* Deletions of configurations and users, racing with one ingestion run, the *)
(* create-article endpoint and an update of a configuration.                 *)

RecordsDelete == {Full("u1", "t1"), Bare("u2", "t2")}

ResponsesDelete == {Ok(q) : q \in SeqsUpTo(RecordsDelete, MaxBatch)}

InitDelete ==
    /\ InitDb
    /\ NEWS_API_KEY = "k0"
    /\ self = Unbound
    /\ ret = NotCalled

NextDelete ==
    \/ create_config(PayloadNew)
    \/ \E cid \in 1..MaxConfigs : delete_config(cid)
    \/ \E uid \in 1..MaxConfigs : delete_user(uid)
    \/ \E cid \in 1..MaxConfigs : update_config(cid, PayloadEdit)
    \/ update_config_save
    \/ \E p \in PayloadsFor(1..MaxConfigs, {"u1"}, {"t3"}) : create_article(p)
    \/ ApiGet
    \/ ApiCreate
    \/ ApiReget
    \/ \E cid \in 1..MaxConfigs, r \in ResponsesDelete :
          Fetch("w1", cid, None, r)
    \/ Get("w1")
    \/ Create("w1")
    \/ Reget("w1")
    \/ Save("w1")

SpecDelete == InitDelete /\ [][NextDelete]_vars

\* C15: every article's configuration and every configuration's user exist; a step
\* removes exactly the configurations of the users it removes, unless it removes
\* one configuration alone, and exactly the articles of the configurations it
\* removes, and it changes no article it keeps
C15_ReferentialIntegrity ==
    /\ [](/\ \A id \in DOMAIN articles : articles[id].search_config_id \in DOMAIN configs
          /\ \A cid \in DOMAIN configs : configs[cid].user_id \in DOMAIN users)
    /\ [][/\ \A id \in DOMAIN articles :
               IF articles[id].search_config_id \in DOMAIN configs'
               THEN id \in DOMAIN articles' /\ articles'[id] = articles[id]
               ELSE id \notin DOMAIN articles'
          /\ (DOMAIN users \ DOMAIN users' # {}) =>
               \A cid \in DOMAIN configs :
                   cid \in DOMAIN configs' <=> configs[cid].user_id \in DOMAIN users'
          /\ (DOMAIN users' = DOMAIN users) =>
               Cardinality(DOMAIN configs \ DOMAIN configs') <= 1]_vars

C15_Witness ==
    /\ api.op = "delete_user" /\ api.status = 200
    /\ lastArticleId = 2
    /\ lastConfigId = 2
    /\ ws["w1"].inserted # {}
    /\ users = <<>>
    /\ configs = <<>>
    /\ articles = <<>>

-----------------------------------------------------------------------------
(* The fan-out task, with configurations created, deactivated and deleted    *)
(* around its two queries, and workers taking what it submitted.             *)

NextAll ==
    \/ \E p \in PayloadsTask : create_config(p)
    \/ \E cid \in 1..MaxConfigs : delete_config(cid)
    \/ \E cid \in 1..MaxConfigs : update_config(cid, PayloadOff)
    \/ update_config_save
    \/ \E key \in {None, "k1"} : fetch_news_for_all_active_configs(key)
    \/ IterateActiveConfigs
    \/ \E w \in Workers : Deliver(w)
    \/ \E w \in Workers : Start(w)

SpecAll == InitDelete /\ [][NextAll]_vars

\* C16: the step that iterates the queryset appends to the queue one message for
\* each configuration active in that step and no other, with the task's key, and
\* returns a summary counting them and acknowledging each; the step that finds no
\* active configuration returns configs_processed 0, no error, and submits nothing;
\* no other step submits
C16_OnePerActiveConfig ==
    /\ [][(periodic.pc = "iterate" /\ periodic'.pc = "done") =>
            LET n == Len(queue') - Len(queue)
                new == [k \in 1..n |-> queue'[Len(queue) + k]]
                r == periodic'.result
            IN  /\ n >= 0
                /\ queue' = queue \o new
                /\ {new[k].config_id : k \in 1..n}
                     = {cid \in DOMAIN configs : configs[cid].is_active}
                /\ n = Cardinality({cid \in DOMAIN configs : configs[cid].is_active})
                /\ ~Has(r, "error")
                /\ r.configs_processed = n
                /\ Len(r.scheduled_tasks) = n
                /\ \A k \in 1..n :
                     /\ new[k].news_api_key = periodic.news_api_key
                     /\ r.scheduled_tasks[k].config_id = new[k].config_id
                     /\ r.scheduled_tasks[k].config_name = configs[new[k].config_id].name
                     /\ r.scheduled_tasks[k].task_id = new[k].id]_vars
    /\ [][(periodic.pc = "idle" /\ periodic'.pc # "idle"
              /\ {cid \in DOMAIN configs : configs[cid].is_active} = {}) =>
            /\ periodic'.pc = "done"
            /\ periodic'.result.configs_processed = 0
            /\ ~Has(periodic'.result, "error")
            /\ queue' = queue]_vars
    /\ [][Len(queue') > Len(queue) => periodic.pc = "iterate"]_vars

C16_Witness ==
    /\ periodic.pc = "done"
    /\ Has(periodic.result, "scheduled_tasks")
    /\ periodic.result.configs_processed = 1
    /\ DOMAIN configs = {1, 2}
    /\ ~configs[1].is_active
    /\ configs[2].is_active
    /\ queue = <<>>
    /\ ws["w1"].pc = "request"
    /\ ws["w1"].config_id = 2

-----------------------------------------------------------------------------
(* The retention sweep, with days passing, articles created through the API  *)
(* and configurations deleted around its two queries.                        *)

NextCleanup ==
    \/ Tick
    \/ \E p \in PayloadsFor(RaceConfigs, {"u1", "u2"}, {"t3"}) : create_article(p)
    \/ ApiGet
    \/ ApiCreate
    \/ \E cid \in RaceConfigs : delete_config(cid)
    \/ \E days_to_keep \in 0..MaxDays : cleanup_old_articles(days_to_keep)
    \/ DeleteOldArticles

SpecCleanup == Init /\ [][NextCleanup]_vars

\* C17 as stated: the step in which the sweep finishes leaves exactly the articles
\* created at or after the cutoff, unchanged, and every configuration, and the result
\* gives the number of articles that step (or the sweep) deleted and the cutoff,
\* which is the time of the call minus days_to_keep
C17_DeletesExactlyOld ==
    [][(periodic'.task = "cleanup_old_articles" /\ periodic.pc # "done"
           /\ periodic'.pc = "done") =>
         LET r == periodic'.result IN
         /\ r.cutoff_date = periodic'.cutoff_date
         /\ periodic.pc = "idle" => r.cutoff_date = now - periodic'.days_to_keep
         /\ DOMAIN articles' = {id \in DOMAIN articles : articles[id].created_at >= r.cutoff_date}
         /\ \A id \in DOMAIN articles' : articles'[id] = articles[id]
         /\ configs' = configs
         /\ r.deleted_count = Cardinality(DOMAIN articles \ DOMAIN articles')]_vars

-----------------------------------------------------------------------------
(* The create-article endpoint called again and again for one URL, with      *)
(* other content and for other configurations, and one ingestion run racing  *)
(* with it on that URL.                                                      *)

NextArticle ==
    \/ \E p \in PayloadsFor(RaceConfigs, {"u1"}, {"t3", "t4"}) : create_article(p)
    \/ ApiGet
    \/ ApiCreate
    \/ ApiReget
    \/ \E cid \in RaceConfigs, r \in ResponsesRace : Fetch("w1", cid, None, r)
    \/ Get("w1")
    \/ Create("w1")
    \/ Reget("w1")
    \/ Save("w1")

SpecArticle == Init /\ [][NextArticle]_vars

\* C18: a query of create_article that finds the payload's URL stored ends the
\* request with that row's id and status 200 and writes nothing; no step changes or
\* removes a stored article; and after a call answered 200 the URL is stored once
C18_CreateArticleIdempotent ==
    /\ [][(/\ api.op = "create_article"
           /\ api.pc \in {"get", "reget"}
           /\ api' # api
           /\ ByUrl(api.records[1].url) # {})
          => /\ api'.pc = "done"
             /\ api'.status = 200
             /\ Len(api'.out) = 1
             /\ api'.out[1] \in ByUrl(api.records[1].url)
             /\ articles' = articles]_vars
    /\ [][\A id \in DOMAIN articles :
            id \in DOMAIN articles' /\ articles'[id] = articles[id]]_vars
    /\ []((api.op = "create_article" /\ api.pc = "done" /\ api.status = 200)
            => /\ Cardinality(ByUrl("u1")) = 1
               /\ api.out = <<CHOOSE id \in ByUrl("u1") : TRUE>>)

C18_Witness ==
    /\ api.op = "create_article" /\ api.pc = "done" /\ api.status = 200
    /\ api.out = <<1>>
    /\ lastArticleId = 1
    /\ articles[1].title = "t1"
    /\ articles[1].source_name = "BBC News"
    /\ ws["w1"].inserted = {1}

-----------------------------------------------------------------------------
(* The same records given to an ingestion run and, from the same database,   *)
(* to the bulk-create endpoint: the run's articles are kept aside, the       *)
(* database is rolled back to what it started with, and the endpoint runs.   *)

RecordsSame == {Full("u1", "t1"), Bare("u2", "t2"), NoTitle("u1"), NullTitle("u2")}

ResponsesSame == {Ok(q) : q \in SeqsUpTo(RecordsSame, MaxArticles)}

\* the database a test starts with: the two configurations, and no article or one
InitSame ==
    /\ users = [u \in {1} |-> "default_user"]
    /\ configs = [cid \in RaceConfigs |->
                     ConfigRow(1, Payload(<<>>, <<>>, TRUE), 1, 1, NullTime)]
    /\ articles \in {<<>>, <<PayloadRow(ArticlePayload(2, "u1", "t3"), 2, 1)>>}
    /\ lastUserId = 1
    /\ lastConfigId = Cardinality(RaceConfigs)
    /\ lastArticleId = Len(articles)
    /\ now = 1
    /\ ws = [w \in Workers |-> IdleWorker]
    /\ api = NoRequest
    /\ queue = <<>>
    /\ periodic = NoTask
    /\ NEWS_API_KEY = "k0"
    /\ self = Unbound
    /\ ret = NotCalled
    /\ snapshot = [NoSnapshot EXCEPT !.articles = articles, !.configs = configs]

\* the run is over: its articles are kept, and the tables are as they started
Rollback ==
    /\ ws["w1"].pc = "done"
    /\ ~snapshot.taken
    /\ snapshot' = [snapshot EXCEPT !.taken = TRUE, !.rows = Rows(articles)]
    /\ articles' = snapshot.articles
    /\ configs' = snapshot.configs
    /\ UNCHANGED <<users, lastUserId, lastConfigId, lastArticleId, now, NEWS_API_KEY,
                   ws, api, self, ret, queue, periodic>>

NextSame ==
    \/ \E cid \in RaceConfigs, r \in ResponsesSame :
          Fetch("w1", cid, None, r)
    \/ Get("w1")
    \/ Create("w1")
    \/ Reget("w1")
    \/ Save("w1")
    \/ Rollback
    \/ /\ snapshot.taken
       /\ api.op = "none"
       /\ create_articles_from_newsapi(ws["w1"].config_id, ws["w1"].articles)
    \/ ApiGet
    \/ ApiCreate
    \/ ApiReget

SpecSame == InitSame /\ [][NextSame]_vars

\* C19 as stated: when the endpoint has answered, the articles in the store are the
\* articles the ingestion run left for the same records, configuration and
\* initial store
C19_SameStoreAsIngestion ==
    (snapshot.taken /\ api.op = "create_articles_from_newsapi" /\ api.pc = "done")
    => Rows(articles) = snapshot.rows

-----------------------------------------------------------------------------
(* The management API with configurations that come and go: every operation  *)
(* that takes a configuration id, for ids that exist, that were deleted and  *)
(* that were never issued.                                                   *)

RecordsApi == {Bare("u2", "t2"), NoTitle("u1")}

NextApi ==
    \/ create_config(PayloadNew)
    \/ \E cid \in 1..MaxConfigs : get_config(cid)
    \/ \E cid \in 1..MaxConfigs : update_config(cid, PayloadEdit)
    \/ update_config_save
    \/ \E cid \in 1..MaxConfigs : delete_config(cid)
    \/ \E cid \in 1..MaxConfigs : update_last_executed(cid)
    \/ update_last_executed_save
    \/ \E cid \in 1..MaxConfigs : get_config_articles(cid)
    \/ \E p \in PayloadsFor(1..MaxConfigs, {"u1"}, {"t3"}) : create_article(p)
    \/ \E cid \in 1..MaxConfigs, q \in SeqsUpTo(RecordsApi, MaxBatch) :
          create_articles_from_newsapi(cid, q)
    \/ ApiGet
    \/ ApiCreate

SpecApi == InitDelete /\ [][NextApi]_vars

\* a request of one of the seven operations for the configuration id cid
Referencing(cid) ==
    \/ get_config(cid)
    \/ update_config(cid, PayloadEdit)
    \/ delete_config(cid)
    \/ update_last_executed(cid)
    \/ get_config_articles(cid)
    \/ create_article(ArticlePayload(cid, "u1", "t3"))
    \/ \E q \in SeqsUpTo(RecordsApi, MaxBatch) : create_articles_from_newsapi(cid, q)

\* C20: a request of get, update, delete, mark last-executed, list a configuration's
\* articles, create article or bulk-create for a configuration id that matches no
\* stored configuration is answered at once with 404 and no content, and changes no
\* configuration, no article and no user; a request answered with 404 has no
\* further step
C20_MissingConfigNotFound ==
    /\ [](api.status = 404 => (api.pc = "done" /\ api.out = <<>>))
    /\ [][\A cid \in 1..MaxConfigs :
            (Http404(cid) /\ Referencing(cid))
            => /\ api'.status = 404
               /\ configs' = configs
               /\ articles' = articles
               /\ users' = users
               /\ lastConfigId' = lastConfigId
               /\ lastArticleId' = lastArticleId]_vars

\* the bulk-create endpoint has answered 404 for a configuration that was deleted
\* while another configuration and an article of it are stored
C20_Witness ==
    /\ api.op = "create_articles_from_newsapi"
    /\ api.status = 404
    /\ DOMAIN configs # {}
    /\ DOMAIN articles # {}
    /\ Cardinality(DOMAIN configs) < lastConfigId

-----------------------------------------------------------------------------
(* Duplicates in the loop of fetch_news_for_config (SpecTask).               *)

\* the step of w ends its record: the loop goes on to the next one or is over
EndsRecord(w) == InLoop(w) /\ ws'[w].i = ws[w].i + 1

\* C21 as stated: the step that ends a record adds one to duplicate_count exactly
\* when the record's URL is in the Article Store at that step, whatever else the
\* record holds or lacks
C21_DuplicateIffUrlStored ==
    [][\A w \in Workers :
         EndsRecord(w)
         => ((ws'[w].duplicate_count = ws[w].duplicate_count + 1)
              <=> (Has(Record(w), "url") /\ ByUrl(Record(w)["url"]) # {}))]_vars

-----------------------------------------------------------------------------
(* What an invocation writes to the configurations, with edits and deletions *)
(* of configurations going on (SpecDelete).                                  *)

\* C22: a step of an invocation adds and removes no configuration and changes no
\* field of any configuration, except that the step after the last record sets
\* last_executed of the invocation's own configuration; the other fields keep the
\* values stored at that step, also those an edit wrote after the invocation
\* loaded the configuration
C22_OnlyLastExecutedWritten ==
    [][\A w \in Workers :
         ws'[w] # ws[w]
         => /\ DOMAIN configs' = DOMAIN configs
            /\ \A cid \in DOMAIN configs :
                  /\ configs'[cid] =
                        [configs[cid] EXCEPT !.last_executed = configs'[cid].last_executed]
                  /\ configs'[cid] # configs[cid]
                        => (cid = ws[w].config.id /\ ws[w].pc = "save")]_vars

\* an invocation loaded its configuration without keywords, an edit stored keywords,
\* and the invocation has finished and written last_executed: the keywords are there
C22_Witness ==
    /\ ws["w1"].pc = "done"
    /\ ws["w1"].saved
    /\ ws["w1"].config.keywords = <<>>
    /\ ws["w1"].config.id \in DOMAIN configs
    /\ configs[ws["w1"].config.id].keywords = <<"a">>
    /\ configs[ws["w1"].config.id].last_executed = now

\* C23 as stated: the save of update_config leaves last_executed of every
\* configuration as it is stored, also when an invocation wrote it after
\* update_config had read the configuration
C23_EditKeepsLastExecuted ==
    [][(api.op = "update_config" /\ api.pc = "save" /\ api' # api)
       => \A cid \in DOMAIN configs \cap DOMAIN configs' :
             configs'[cid].last_executed = configs[cid].last_executed]_vars

-----------------------------------------------------------------------------
(* The timestamps of a configuration while the clock runs: edits, the        *)
(* mark-last-executed endpoint and an invocation, each after any wait.       *)

NextStamp ==
    \/ Tick
    \/ create_config(PayloadNew)
    \/ \E cid \in 1..MaxConfigs : update_config(cid, PayloadEdit)
    \/ update_config_save
    \/ \E cid \in 1..MaxConfigs : update_last_executed(cid)
    \/ update_last_executed_save
    \/ \E cid \in 1..MaxConfigs : delete_config(cid)
    \/ \E cid \in 1..MaxConfigs, r \in ResponsesDelete :
          Fetch("w1", cid, None, r)
    \/ Get("w1")
    \/ Create("w1")
    \/ Save("w1")

SpecStamp == InitDelete /\ [][NextStamp]_vars

\* C24 as stated: a step that changes a stored field of a configuration leaves its
\* updated_at at the time of the step and its created_at as it was
C24_UpdatedAtOnEveryMutation ==
    [][\A cid \in DOMAIN configs \cap DOMAIN configs' :
          configs'[cid] # configs[cid]
          => /\ configs'[cid].updated_at = now
             /\ configs'[cid].created_at = configs[cid].created_at]_vars

-----------------------------------------------------------------------------
(* An invocation for one configuration alone, and then, from the same        *)
(* database and with the same response, next to an invocation for the other  *)
(* configuration: worker w2 runs alone, the database is rolled back, and w2  *)
(* runs again while w1 runs for the other configuration.                     *)

RecordsApart == {Full("u1", "t1"), Bare("u2", "t2")}

ResponsesApart == {Ok(q) : q \in SeqsUpTo(RecordsApart, MaxBatch)}

\* the run alone is over: the run and its configuration's articles are kept, the
\* tables are as they started, and the worker is free again
Rerun ==
    /\ ws["w2"].pc = "done"
    /\ ws["w1"].pc = "idle"
    /\ ~snapshot.taken
    /\ snapshot' = [snapshot EXCEPT
                       !.taken = TRUE,
                       !.rows = {articles[id] : id \in ArticlesOf(ws["w2"].config_id)},
                       !.run = ws["w2"]]
    /\ articles' = snapshot.articles
    /\ configs' = snapshot.configs
    /\ ws' = [ws EXCEPT !["w2"] = IdleWorker]
    /\ UNCHANGED <<users, lastUserId, lastConfigId, lastArticleId, now, NEWS_API_KEY,
                   api, self, ret, queue, periodic>>

NextApart ==
    \/ /\ ~snapshot.taken
       /\ \E cid \in RaceConfigs, r \in ResponsesApart :
             Fetch("w2", cid, None, r)
    \/ Rerun
    \/ /\ snapshot.taken
       /\ Fetch("w2", snapshot.run.config_id, None, snapshot.run.response)
    \/ /\ snapshot.taken
       /\ \E cid \in RaceConfigs \ {snapshot.run.config_id}, r \in ResponsesApart :
             Fetch("w1", cid, None, r)
    \/ \E w \in Workers : Get(w)
    \/ \E w \in Workers : Create(w)
    \/ \E w \in Workers : Reget(w)
    \/ \E w \in Workers : Save(w)

SpecApart == InitSame /\ [][NextApart]_vars

\* C25 as stated: the result of an invocation, and the articles of its
\* configuration when it is done, are those of the same invocation run alone,
\* whatever an invocation for the other configuration did before or meanwhile
C25_IndependentOfOtherConfig ==
    (snapshot.taken /\ ws["w2"].pc = "done")
    => /\ ws["w2"].result = snapshot.run.result
       /\ {articles[id] : id \in ArticlesOf(ws["w2"].config_id)} = snapshot.rows

-----------------------------------------------------------------------------
(* POST /configs from the request body on: the body is read into             *)
(* NewsSearchConfigCreateSchema, which fills in the defaults of the keys the *)
(* body omits, and create_config runs on payload.dict().                     *)

\* the body has no name: the request is answered 422 before create_config runs
SchemaError(body) == ~Has(body, "name")

SchemaDefaults ==
    [keywords |-> NoneText, country |-> "us", category |-> "general", sources |-> NoneText,
     sort_by |-> "publishedAt", frequency |-> "daily", is_active |-> TRUE]

\* payload.dict(): the body's values, and the schema's default for a key it omits
NewsSearchConfigCreateSchema(body) ==
    [k \in {"name"} \cup DOMAIN SchemaDefaults |->
        IF Has(body, k) THEN body[k] ELSE SchemaDefaults[k]]

PostConfigs(body) ==
    IF SchemaError(body)
    THEN /\ api.pc = "done"
         /\ api' = Answer(Request("create_config"), 422)
         /\ UNCHANGED <<users, configs, articles, lastUserId, lastConfigId, lastArticleId,
                        now, NEWS_API_KEY, ws, self, ret, queue, periodic, snapshot>>
    ELSE create_config(NewsSearchConfigCreateSchema(body))

\* bodies as clients send them: all keys, some optional keys omitted, no name
BodiesCreate ==
    {Payload(<<"a">>, <<"a">>, FALSE),
     [name |-> "n", keywords |-> <<"a">>, sources |-> <<>>],
     [name |-> "n", keywords |-> <<"a">>, country |-> "uk", category |-> "technology",
      frequency |-> "hourly"],
     [name |-> "n", sources |-> <<"a">>, sort_by |-> "popularity"],
     [name |-> "n"],
     [keywords |-> <<"a">>]}

NextCreate ==
    \/ Tick
    \/ \E body \in BodiesCreate : PostConfigs(body)
    \/ \E cid \in 1..MaxConfigs : delete_config(cid)

SpecCreate == InitDelete /\ [][NextCreate]_vars

\* the defaults the claim names
Defaulted ==
    [country |-> "us", category |-> "general", sort_by |-> "publishedAt",
     frequency |-> "daily", is_active |-> TRUE]

\* C26 as stated: a create request whose body has a name is answered 200 and adds
\* one configuration, which holds the body's values and the defaults of the fields
\* the body omits; a body without name is answered 422 and adds no configuration
C26_OptionalFieldsDefaulted ==
    [][\A body \in BodiesCreate :
         PostConfigs(body)
         => IF Has(body, "name")
            THEN /\ api'.status = 200
                 /\ DOMAIN configs' = DOMAIN configs \cup {lastConfigId + 1}
                 /\ lastConfigId + 1 \notin DOMAIN configs
                 /\ \A cid \in DOMAIN configs : configs'[cid] = configs[cid]
                 /\ \A k \in DOMAIN body :
                       configs'[lastConfigId + 1][k] = body[k]
                 /\ \A k \in DOMAIN Defaulted \ DOMAIN body :
                       configs'[lastConfigId + 1][k] = Defaulted[k]
            ELSE /\ api'.status = 422
                 /\ configs' = configs]_vars

-----------------------------------------------------------------------------
(* Two invocations at the same time whose responses share URLs that are not  *)
(* stored: the store is empty, and only the two workers write.               *)

RecordsShare == {Full("u1", "t1"), Bare("u1", "t2"), NoTitle("u1"), Bare("u2", "t2")}

ResponsesShare == {Ok(q) : q \in SeqsUpTo(RecordsShare, MaxBatch)}

NextShare ==
    \/ \E w \in Workers, cid \in RaceConfigs, r \in ResponsesShare :
          Fetch(w, cid, None, r)
    \/ \E w \in Workers : Get(w)
    \/ \E w \in Workers : Create(w)
    \/ \E w \in Workers : Reget(w)
    \/ \E w \in Workers : Save(w)

SpecShare == Init /\ [][NextShare]_vars

\* the URLs of the records of a response, and of its well-formed records
Urls(q) == {q[i]["url"] : i \in {j \in 1..Len(q) : Has(q[j], "url")}}
WellFormedUrls(q) == {q[i]["url"] : i \in {j \in 1..Len(q) : WellFormed(q[j])}}

\* both invocations are over
BothDone == \A w \in Workers : ws[w].pc = "done" /\ Has(ws[w].result, "status")

\* the workers that inserted the row of URL u
Creators(u) ==
    {w \in Workers : \E id \in ws[w].inserted \cap DOMAIN articles : articles[id].url = u}

\* the rows added are as many as the created_counts say
CreatedSum == ws["w1"].result.created_count + ws["w2"].result.created_count

-----------------------------------------------------------------------------
(* The count a retention sweep reports (SpecCleanup).                        *)

\* C28 as stated: the deleted_count a sweep returns is the number of rows its
\* delete removed, also when a configuration was deleted, with its articles,
\* between the sweep's count and its delete
C28_DeletedCountIsRemoved ==
    [][(periodic.task = "cleanup_old_articles" /\ periodic.pc = "delete"
           /\ periodic'.pc = "done")
       => periodic'.result.deleted_count
             = Cardinality(DOMAIN articles) - Cardinality(DOMAIN articles')]_vars

-----------------------------------------------------------------------------
(* What the failed attempts of an invocation leave behind (SpecTask).        *)

\* the attempt of w is before the provider's answer, or ended in a network failure
NothingReceived(w) == ws[w].pc \in {"received", "request", "retry", "failed"}

\* C29: the step in which the provider call of an attempt fails changes neither
\* store and ends the attempt in a retry or, after the last retry, in failure; an
\* invocation whose attempts so far all failed has inserted no article and has not
\* written last_executed; and the counts of an attempt that succeeds after failed
\* ones are those of its own records: created_count is the number of rows the
\* invocation inserted
C29_FailedAttemptWritesNothing ==
    /\ [][\A w \in Workers :
            (ws[w].pc = "request" /\ ws'[w] # ws[w] /\ RequestException(ws'[w].response))
            => /\ articles' = articles
               /\ configs' = configs
               /\ ws'[w].pc \in {"retry", "failed"}]_vars
    /\ [](\A w \in Workers :
            /\ NothingReceived(w) => (ws[w].inserted = {} /\ ~ws[w].saved)
            /\ (ws[w].pc = "done" /\ Has(ws[w].result, "status"))
                  => /\ ws[w].result.created_count = Cardinality(ws[w].inserted)
                     /\ ws[w].result.created_count + ws[w].result.duplicate_count
                           <= Len(ws[w].articles))

\* two attempts failed at network level, the third got an answer and stored its
\* one record
C29_Witness ==
    /\ ws["w1"].pc = "done"
    /\ ws["w1"].attempts = 3
    /\ ws["w1"].countdowns = <<60, 120>>
    /\ Has(ws["w1"].result, "status")
    /\ ws["w1"].result.created_count = 1
    /\ Cardinality(DOMAIN articles) = 1
    /\ ws["w1"].saved

-----------------------------------------------------------------------------
(* The sources parameter of get_newsapi_params (SpecParams).                 *)

\* C30 as stated: when the mapping returned has the key sources, its value is the
\* comma-join of get_sources_list(), which names at least one source: the value
\* is not the empty text
C30_SourcesNamesASource ==
    (ret # NotCalled /\ Has(ret, "sources"))
    => /\ ret["sources"] = join(get_sources_list(self))
       /\ get_sources_list(self) # <<>>
       /\ ret["sources"] # <<>>

====
